---- MODULE Spec2Model ----
(***************************************************************************)
(* The in-memory rate limiter of src/server/middleware/cache.ts            *)
(* (MemoryStore, createRateLimiter and the four pre-built limiters) and    *)
(* the way the server mounts the limiters in front of its routes.          *)
(*                                                                         *)
(* A string is a sequence of one-character (or one-token) strings, so that *)
(* split, trim and the template literals of the key generators are real    *)
(* computations.  Time is Date.now() in milliseconds, counted from the     *)
(* moment the module was loaded.  The store maps a key to a reference into *)
(* `heap`, because the middleware keeps the record OBJECT it got from      *)
(* increment across `await next()` and writes through it afterwards.       *)
(* A record object nothing refers to any more is dropped from `heap` (the  *)
(* garbage collector), and a finished request is dropped from `reqs`.      *)
(***************************************************************************)
EXTENDS Integers, Sequences, FiniteSets, Bags, TLC

VARIABLES
    now,        \* Date.now()
    store,      \* MemoryStore.store: key -> reference of the record object
    heap,       \* the live record objects: reference -> [count, resetTime]
    timerDue,   \* next time the setInterval callback is due
    reqs,       \* the requests being served: a bag of requests
    opts,       \* the options the free-standing limiter was created with
    mounted,    \* the routes requests are sent to in this run
    clients,    \* the client addresses requests come from in this run
    budget,     \* the bounds of this run: requests, concurrency, clock steps
    ticks,      \* number of clock steps taken (bounded)
    arrived,    \* number of requests that have arrived (bounded)
    traffic,    \* history: <<client ip, route>> -> requests arrived
    hist,       \* history per live record object: what was counted on it
    opened,     \* history: key -> the window most recently opened for it
    last        \* history: what the latest step did and observed

vars == <<now, store, heap, timerDue, reqs, opts, mounted, clients, budget,
          ticks, arrived, traffic, hist, opened, last>>

---------------------------------------------------------------------------
\* Bounds of the model.
MaxReqs == 3        \* requests per run
MaxInFlight == 2    \* requests between arrival and completion at one time
MaxTicks == 2       \* clock steps per run
TickMs == 500       \* the small clock step
MaxCustomMax == 2   \* largest maxRequests of the free-standing limiter
MaxLen == 3         \* longest x-forwarded-for header, in tokens

NoRec == 0

---------------------------------------------------------------------------
\* Strings.

Str(tok) == <<tok>>

RECURSIVE FirstField(_)
\* forwarded.split(',')[0]
FirstField(s) ==
    IF s = <<>> THEN <<>>
    ELSE IF Head(s) = "," THEN <<>>
    ELSE <<Head(s)>> \o FirstField(Tail(s))

RECURSIVE TrimStart(_)
TrimStart(s) ==
    IF s = <<>> THEN <<>>
    ELSE IF Head(s) = " " THEN TrimStart(Tail(s))
    ELSE s

RECURSIVE TrimEnd(_)
TrimEnd(s) ==
    IF s = <<>> THEN <<>>
    ELSE IF s[Len(s)] = " " THEN TrimEnd(SubSeq(s, 1, Len(s) - 1))
    ELSE s

\* Mutant: only the leading blanks are taken off.
TrimLeading(s) == TrimStart(s)

\* String.prototype.trim
Trim(s) == TrimEnd(TrimStart(s))

\* x || y on strings: the empty string and undefined (both <<>>) are falsy
OrElse(x, y) == IF x # <<>> THEN x ELSE y

\* Math.ceil(a / b) for b > 0
CeilDiv(a, b) == IF a >= 0 THEN (a + b - 1) \div b ELSE -((-a) \div b)

Max(a, b) == IF a >= b THEN a ELSE b

---------------------------------------------------------------------------
\* Options of the limiters.

\* The message of a limiter created without one.
DefaultMessage == "Too many requests, please try again later."

RateLimitOptions(w, m, msg, ss, sf, kg) ==
    [windowMs |-> w, maxRequests |-> m, message |-> msg,
     skipSuccessfulRequests |-> ss, skipFailedRequests |-> sf,
     keyGenerator |-> kg]

rateLimiter ==
    RateLimitOptions(15 * 60 * 1000, 100,
                     "Too many requests from this IP, please try again later.",
                     FALSE, FALSE, "default")

\* Mutant: the strict limiter counts successful requests too.
strictRateLimiterCountsAll ==
    RateLimitOptions(15 * 60 * 1000, 5,
                     "Too many authentication attempts, please try again later.",
                     FALSE, FALSE, "default")

strictRateLimiter ==
    RateLimitOptions(15 * 60 * 1000, 5,
                     "Too many authentication attempts, please try again later.",
                     TRUE, FALSE, "default")

\* Mutant: the read limiter with the window of the default limiter.
readRateLimiterQuarterHour ==
    RateLimitOptions(15 * 60 * 1000, 1000,
                     "Too many requests, please slow down.",
                     FALSE, FALSE, "default")

readRateLimiter ==
    RateLimitOptions(60 * 60 * 1000, 1000,
                     "Too many requests, please slow down.",
                     FALSE, FALSE, "default")

uploadRateLimiter ==
    RateLimitOptions(60 * 60 * 1000, 10,
                     "Upload limit exceeded, please try again later.",
                     FALSE, FALSE, "upload")

CleanupIntervalMs == 5 * 60 * 1000

\* The options a caller of the exported createRateLimiter passes.
CustomOptions ==
    { RateLimitOptions(2 * TickMs, m, DefaultMessage, ss, sf, "default") :
        m \in 1..MaxCustomMax, ss \in BOOLEAN, sf \in BOOLEAN }

\* createRateLimiter({windowMs: w, maxRequests: m}): the options are taken
\* as they come, with the defaults for what is left out.
createRateLimiter(w, m) ==
    RateLimitOptions(w, m, DefaultMessage, FALSE, FALSE, "default")

\* The limiters createRateLimiter makes of any two numbers, zero and
\* negative ones included.
AnyOptions ==
    { createRateLimiter(w, m) : w \in {0 - TickMs, 0, 2 * TickMs}, m \in -1..1 }

\* A limiter whose window is one and a half clock steps long, not counting
\* successful requests.
BurstOptions ==
    RateLimitOptions((3 * TickMs) \div 2, MaxCustomMax, DefaultMessage,
                     TRUE, FALSE, "default")

Options(name) ==
    CASE name = "rateLimiter" -> rateLimiter
      [] name = "strictRateLimiter" -> strictRateLimiter
      [] name = "readRateLimiter" -> readRateLimiter
      [] name = "uploadRateLimiter" -> uploadRateLimiter
      [] OTHER -> opts

\* The limiters a request of a route passes, outermost first.  "/api" is
\* any /api/* route without a limiter of its own; "strict", "read",
\* "upload" and "custom" stand for a limiter mounted with no other limiter
\* in front of it, "custom/redirect" for the same limiter as "custom" in
\* front of a handler that may also redirect.
Chain(route) ==
    CASE route = "/api/auth/login" -> <<"rateLimiter", "strictRateLimiter">>
      [] route = "/api/users/:id" -> <<"rateLimiter", "readRateLimiter">>
      [] route = "/api/media/upload" -> <<"rateLimiter", "uploadRateLimiter">>
      [] route \in {"/api/users/search", "/api/posts/search"} ->
            <<"rateLimiter", "readRateLimiter", "readRateLimiter">>
      [] route = "/api" -> <<"rateLimiter">>
      [] route = "strict" -> <<"strictRateLimiter">>
      [] route = "read" -> <<"readRateLimiter">>
      [] route = "upload" -> <<"uploadRateLimiter">>
      [] OTHER -> <<"custom">>

\* The routes of the model.
Routes == {"custom", "custom/redirect", "strict", "read", "upload", "/api",
           "/api/auth/login", "/api/users/:id", "/api/media/upload",
           "/api/users/search", "/api/posts/search"}

\* The status a route's handler can finish with.
HandlerStatuses(route) ==
    CASE route = "/api/auth/login" -> {200, 401}
      [] route = "/api/users/:id" -> {200, 404}
      [] route = "/api/media/upload" -> {401, 501}
      [] route = "/api/users/search" -> {200, 404}
      [] route = "/api/posts/search" -> {404}
      [] route = "strict" -> {200, 401}
      [] route = "upload" -> {501}
      [] route = "custom/redirect" -> {200, 302, 400}
      [] OTHER -> {200, 400}

\* The routes whose limiter runs behind a middleware that has set userId
\* from the request's token (the arrangement uploadRateLimiter assumes).
AuthFirst(route) == route = "upload"

\* The routes with requireAuth between the limiters and the handler.
AuthLast(route) == route = "/api/media/upload"

---------------------------------------------------------------------------
\* Key generators.

Header(req, name) ==
    CASE name = "x-forwarded-for" -> req.xff
      [] name = "x-real-ip" -> req.realip
      [] OTHER -> <<>>

ClientIp(req) ==
    LET forwarded == Header(req, "x-forwarded-for")
    IN  IF forwarded # <<>> THEN Trim(FirstField(forwarded))
        ELSE OrElse(Header(req, "x-real-ip"), Str("unknown"))

DefaultKeyGenerator(req) == Str("rate_limit:") \o ClientIp(req)

UploadKeyGenerator(req) ==
    Str("upload_limit:") \o ClientIp(req) \o Str(":")
        \o OrElse(req.userId, Str("anonymous"))

KeyGenerator(o, req) ==
    IF o.keyGenerator = "upload" THEN UploadKeyGenerator(req)
    ELSE DefaultKeyGenerator(req)

---------------------------------------------------------------------------
\* MemoryStore.  Every operation takes the store and the heap and returns
\* the new ones together with its result.

\* The reference of a newly allocated record object.
FreshRef(hp) ==
    CHOOSE i \in 1..Cardinality(DOMAIN hp) + 1 :
        /\ i \notin DOMAIN hp
        /\ \A j \in 1..i - 1 : j \in DOMAIN hp

Expired(t, record) == t > record.resetTime

Remove(st, key) == [k \in DOMAIN st \ {key} |-> st[k]]

\* Mutant: get hands out a record whatever its reset time.
MemoryStoreGetKeepsExpired(st, hp, key, t) ==
    IF key \notin DOMAIN st THEN [store |-> st, rec |-> NoRec]
    ELSE [store |-> st, rec |-> st[key]]

MemoryStoreGet(st, hp, key, t) ==
    IF key \notin DOMAIN st THEN [store |-> st, rec |-> NoRec]
    ELSE IF Expired(t, hp[st[key]])
         THEN [store |-> Remove(st, key), rec |-> NoRec]
         ELSE [store |-> st, rec |-> st[key]]

\* Mutant: set replaces the whole table by the one entry.
MemoryStoreSetAlone(st, key, ref) == [k \in {key} |-> ref]

MemoryStoreSet(st, key, ref) ==
    [k \in DOMAIN st \cup {key} |-> IF k = key THEN ref ELSE st[k]]

\* Mutant: the request that creates the record is not counted.
NewRecordUncounted(t, windowMs) == [count |-> 0, resetTime |-> t + windowMs]

NewRecord(t, windowMs) == [count |-> 1, resetTime |-> t + windowMs]

\* Mutant: the increment is lost.
BumpLost(record) == record

Bump(record) == [record EXCEPT !.count = @ + 1]

MemoryStoreIncrement(st, hp, key, windowMs, t) ==
    LET g == MemoryStoreGet(st, hp, key, t)
        ref == FreshRef(hp)
    IN  IF g.rec = NoRec
        THEN [store |-> MemoryStoreSet(g.store, key, ref),
              heap |-> [i \in DOMAIN hp \cup {ref} |->
                          IF i = ref THEN NewRecord(t, windowMs) ELSE hp[i]],
              rec |-> ref]
        ELSE [store |-> MemoryStoreSet(g.store, key, g.rec),
              heap |-> [hp EXCEPT ![g.rec] = Bump(@)],
              rec |-> g.rec]

\* Mutant: the sweep removes nothing.
MemoryStoreCleanupNothing(st, hp, t) == st

MemoryStoreCleanup(st, hp, t) ==
    [k \in {q \in DOMAIN st : ~Expired(t, hp[st[q]])} |-> st[k]]

---------------------------------------------------------------------------
\* createRateLimiter: the middleware, split at its `await next()`.

\* Mutant: a redirect is not a success.
IsSuccessOnly2xx(status) == status >= 200 /\ status < 300

IsSuccess(status) == status >= 200 /\ status < 400

\* Mutant: the failure test also holds of a success.
IsFailureOverlaps(status) == status >= 200

IsFailure(status) == status >= 400

\* Mutant: the limit test lets one request more through.
ExceededLate(record, o) == record.count > o.maxRequests + 1

\* Mutant: the limit test off by one.
ExceededOffByOne(record, o) == record.count >= o.maxRequests

Exceeded(record, o) == record.count > o.maxRequests

\* Mutant: the remaining quota is not cut off at 0.
RemainingUnclamped(record, o) == o.maxRequests - record.count

Remaining(record, o) == Max(0, o.maxRequests - record.count)

\* Mutant: the seconds to wait are rounded down.
RetryAfterFloor(record, t) == (record.resetTime - t) \div 1000

RetryAfter(record, t) == CeilDiv(record.resetTime - t, 1000)

\* The four headers set on every evaluated request (as numbers).
RateLimitHeaders(record, o) ==
    [limit |-> o.maxRequests,
     remaining |-> Remaining(record, o),
     reset |-> CeilDiv(record.resetTime, 1000),
     window |-> o.windowMs]

\* The body of the 429 response.
RejectionBody(record, o, t) ==
    [error |-> "Too Many Requests", message |-> o.message,
     code |-> "RATE_LIMIT_EXCEEDED",
     retryAfter |-> RetryAfter(record, t),
     limit |-> o.maxRequests, window |-> o.windowMs]

\* record.count--; store.set(key, record)
\* Mutant: the record is written back without the decrement.
UncountForgotten(st, hp, key, ref) ==
    [store |-> MemoryStoreSet(st, key, ref), heap |-> hp]

Uncount(st, hp, key, ref) ==
    [store |-> MemoryStoreSet(st, key, ref),
     heap |-> [hp EXCEPT ![ref].count = @ - 1]]

\* Mutant: a success is never taken off the count.
SkipsSuccessNever(o, status) == FALSE

SkipsSuccess(o, status) == o.skipSuccessfulRequests /\ IsSuccess(status)

SkipsFailure(o, status) == o.skipFailedRequests /\ IsFailure(status)

\* The code after `await next()`: the two optional decrements in order.
AfterNext(st, hp, o, key, ref, status) ==
    LET s0 == [store |-> st, heap |-> hp]
        s1 == IF SkipsSuccess(o, status)
              THEN Uncount(s0.store, s0.heap, key, ref) ELSE s0
        s2 == IF SkipsFailure(o, status)
              THEN Uncount(s1.store, s1.heap, key, ref) ELSE s1
    IN  s2

---------------------------------------------------------------------------
\* Requests.

\* Client addresses as the request headers carry them.
ClientA == [xff |-> <<"a", ",", " ", "p">>, realip |-> Str("b"), auth |-> <<>>]

ClientB == [xff |-> <<>>, realip |-> Str("b"), auth |-> <<>>]

\* Two users, signed in, at the address of ClientA.
UserU1 == [ClientA EXCEPT !.auth = <<"Bearer ", "u1">>]

UserU2 == [ClientA EXCEPT !.auth = <<"Bearer ", "u2">>]

\* The strings of at most n tokens over an alphabet.
Strings(alphabet, n) == UNION {[1..k -> alphabet] : k \in 0..n}

\* Requests with any short x-forwarded-for header, with and without an
\* x-real-ip header.
HeaderClients ==
    { [xff |-> f, realip |-> r, auth |-> <<>>] :
        f \in Strings({"a", " ", ","}, MaxLen), r \in {<<>>, Str("b")} }

Clients == {ClientA, ClientB, UserU1, UserU2} \cup HeaderClients

\* The userId requireAuth and optionalAuth find in the Authorization header:
\* the one the token after "Bearer " was signed for, or none.
BearerUserId(auth) ==
    IF auth # <<>> /\ Head(auth) = "Bearer " THEN Tail(auth) ELSE <<>>

NewRequest(route, client) ==
    [route |-> route, xff |-> client.xff, realip |-> client.realip,
     auth |-> client.auth,
     userId |-> IF AuthFirst(route) THEN BearerUserId(client.auth) ELSE <<>>,
     pc |-> "limit", idx |-> 1, held |-> <<>>, status |-> 0,
     handled |-> FALSE]

\* What the code behind the limiters answers to a request: requireAuth
\* turns a request without a valid token away before the handler.
Outcomes(req) ==
    IF AuthLast(req.route)
    THEN IF BearerUserId(req.auth) = <<>> THEN {401}
         ELSE HandlerStatuses(req.route) \ {401}
    ELSE HandlerStatuses(req.route)

\* The record objects something still refers to.
Live(st, rq) ==
    {st[k] : k \in DOMAIN st}
        \cup UNION {{q.held[i].rec : i \in DOMAIN q.held} : q \in BagToSet(rq)}

Restrict(f, S) == [x \in DOMAIN f \cap S |-> f[x]]

\* What has been counted on a record object: increments, decrements made
\* after next(), requests admitted and not yet back from next(), requests
\* whose handler ended well (2xx, 3xx) or badly, rejected requests, the
\* limiters that used the record, when it was created and with which reset
\* time, the times of the admissions still counted on it (a bag), and the
\* same bag and the reset time of the record the key had before, as they
\* were when this record took its place.
NoHist == [incs |-> 0, decs |-> 0, open |-> 0, ok |-> 0, bad |-> 0,
           rejs |-> 0, limiters |-> {}, born |-> 0, reset0 |-> 0,
           kept |-> EmptyBag, prev |-> EmptyBag, prevEnd |-> 0]

\* The earliest and the latest time in a non-empty bag of times.
Earliest(b) == CHOOSE t \in DOMAIN b : \A u \in DOMAIN b : t <= u

Latest(b) == CHOOSE t \in DOMAIN b : \A u \in DOMAIN b : t >= u

\* A bag without one copy of x.
Less(b, x) == IF BagIn(x, b) THEN b (-) SetToBag({x}) ELSE b

Count(f, x) == IF x \in DOMAIN f THEN f[x] ELSE 0

\* The requests of a client address that went to other routes.
OtherTraffic(ip, route) ==
    {x \in DOMAIN traffic : x[1] = ip /\ x[2] # route}

\* A request that holds record ref was not alone on it: another request
\* has just touched ref.
Disturbed(q, ref) ==
    [q EXCEPT !.held =
        [i \in DOMAIN @ |->
            IF @[i].rec = ref THEN [@[i] EXCEPT !.alone = FALSE] ELSE @[i]]]

Disturb(rq, ref) == BagOfAll(LAMBDA q : Disturbed(q, ref), rq)

One(req) == SetToBag({req})

---------------------------------------------------------------------------
\* Actions.

\* A request reaches the server.
Arrive(route, client) ==
    /\ route \in Routes
    /\ client \in Clients
    /\ arrived < budget.reqs
    /\ BagCardinality(reqs) < budget.flights
    /\ LET who == <<ClientIp(client), route>>
           ordinal == Count(traffic, who) + 1
       IN  /\ reqs' = reqs (+) One(NewRequest(route, client))
           /\ traffic' = [x \in DOMAIN traffic \cup {who} |->
                            IF x = who THEN ordinal ELSE traffic[x]]
    /\ arrived' = arrived + 1
    /\ last' = [op |-> "arrive"]
    /\ UNCHANGED <<now, store, heap, timerDue, opts, mounted, clients, budget,
                   ticks, hist, opened>>

\* The limiter at position idx of the request's chain runs up to its
\* `await next()` or to its 429.
Limit(req) ==
    /\ BagIn(req, reqs)
    /\ req.pc = "limit"
    /\ LET name == Chain(req.route)[req.idx]
           o == Options(name)
           key == KeyGenerator(o, req)
           inc == MemoryStoreIncrement(store, heap, key, o.windowMs, now)
           record == inc.heap[inc.rec]
           fresh == inc.rec \notin DOMAIN heap
           before == IF fresh THEN NoHist ELSE hist[inc.rec]
           rejected == Exceeded(record, o)
           isLast == req.idx = Len(Chain(req.route))
           hold == [key |-> key, rec |-> inc.rec, pre |-> record.count - 1,
                    alone |-> TRUE, at |-> now]
           prev == IF key \in DOMAIN store THEN hist[store[key]].kept
                   ELSE EmptyBag
           req2 == IF rejected
                   THEN [req EXCEPT !.status = 429, !.pc = "settle",
                                    !.idx = req.idx - 1]
                   ELSE [req EXCEPT !.held = Append(@, hold),
                                    !.pc = IF isLast THEN "handler" ELSE "limit",
                                    !.idx = IF isLast THEN req.idx ELSE req.idx + 1]
           others == Disturb(reqs (-) One(req), inc.rec)
           reqs2 == IF req2.idx = 0 THEN others ELSE others (+) One(req2)
           hist2 == [i \in DOMAIN inc.heap |->
                       IF i = inc.rec
                       THEN [incs |-> before.incs + 1, decs |-> before.decs,
                             open |-> before.open + (IF rejected THEN 0 ELSE 1),
                             ok |-> before.ok, bad |-> before.bad,
                             rejs |-> before.rejs + (IF rejected THEN 1 ELSE 0),
                             limiters |-> before.limiters \cup {name},
                             born |-> IF fresh THEN now ELSE before.born,
                             reset0 |-> IF fresh THEN record.resetTime
                                        ELSE before.reset0,
                             kept |-> IF rejected THEN before.kept
                                      ELSE before.kept (+) SetToBag({now}),
                             prev |-> IF fresh THEN prev ELSE before.prev,
                             prevEnd |-> IF ~fresh THEN before.prevEnd
                                         ELSE IF key \in DOMAIN store
                                         THEN heap[store[key]].resetTime
                                         ELSE 0]
                       ELSE hist[i]]
           live == Live(inc.store, reqs2)
       IN  /\ store' = inc.store
           /\ heap' = Restrict(inc.heap, live)
           /\ hist' = Restrict(hist2, live)
           /\ reqs' = reqs2
           /\ opened' = IF fresh
                        THEN [k \in DOMAIN opened \cup {key} |->
                                IF k = key
                                THEN [start |-> now, end |-> record.resetTime]
                                ELSE opened[k]]
                        ELSE opened
           /\ last' = [op |-> "limit", route |-> req.route, limiter |-> name,
                       options |-> o, key |-> key,
                       xff |-> req.xff, realip |-> req.realip,
                       userId |-> req.userId,
                       principal |-> BearerUserId(req.auth),
                       window |-> IF key \in DOMAIN opened
                                  THEN <<opened[key]>> ELSE <<>>,
                       born |-> hist2[inc.rec].born,
                       next |-> IF req2.idx = 0 THEN "done" ELSE req2.pc,
                       retryAfter |-> IF rejected
                                      THEN <<RetryAfter(record, now)>>
                                      ELSE <<>>,
                       seen |-> traffic[<<ClientIp(req), req.route>>],
                       only |-> OtherTraffic(ClientIp(req), req.route) = {},
                       fresh |-> fresh,
                       old |-> IF key \in DOMAIN store
                               THEN <<heap[store[key]]>> ELSE <<>>,
                       before |-> before,
                       times |-> Cardinality({i \in 1..req.idx :
                                    Chain(req.route)[i] = name}),
                       oldhist |-> IF key \in DOMAIN store
                                   THEN <<hist[store[key]]>> ELSE <<>>,
                       record |-> record,
                       admitted |-> ~rejected,
                       status |-> req2.status,
                       headers |-> RateLimitHeaders(record, o),
                       body |-> IF rejected
                                THEN <<RejectionBody(record, o, now)>>
                                ELSE <<>>]
    /\ UNCHANGED <<now, timerDue, opts, mounted, clients, budget, ticks, arrived,
                   traffic>>

\* The code behind the limiters (requireAuth where the route has it, then
\* the route's handler) finishes with a status.
Handle(req, status) ==
    /\ BagIn(req, reqs)
    /\ req.pc = "handler"
    /\ status \in Outcomes(req)
    /\ reqs' = (reqs (-) One(req))
                  (+) One([req EXCEPT !.status = status, !.pc = "settle",
                                      !.handled = TRUE,
                                      !.userId = IF AuthLast(req.route)
                                                 THEN BearerUserId(req.auth)
                                                 ELSE @])
    /\ last' = [op |-> "handle"]
    /\ UNCHANGED <<now, store, heap, timerDue, opts, mounted, clients, budget, ticks,
                   arrived, traffic, hist, opened>>

\* `await next()` returns in the limiter at position idx, innermost first.
Settle(req) ==
    /\ BagIn(req, reqs)
    /\ req.pc = "settle"
    /\ LET name == Chain(req.route)[req.idx]
           o == Options(name)
           h == req.held[req.idx]
           after == AfterNext(store, heap, o, h.key, h.rec, req.status)
           d == heap[h.rec].count - after.heap[h.rec].count
           req2 == [req EXCEPT !.held = SubSeq(@, 1, req.idx - 1),
                               !.idx = req.idx - 1]
           others == IF d = 0 THEN reqs (-) One(req)
                     ELSE Disturb(reqs (-) One(req), h.rec)
           reqs3 == IF req2.idx = 0 THEN others ELSE others (+) One(req2)
           hist2 == [hist EXCEPT ![h.rec] =
                       [@ EXCEPT !.open = @ - 1, !.decs = @ + d,
                                 !.ok = @ + (IF req.status < 400 THEN 1 ELSE 0),
                                 !.bad = @ + (IF req.status < 400 THEN 0 ELSE 1),
                                 !.kept = IF d > 0 THEN Less(@, h.at) ELSE @]]
           live == Live(after.store, reqs3)
       IN  /\ store' = after.store
           /\ heap' = Restrict(after.heap, live)
           /\ hist' = Restrict(hist2, live)
           /\ reqs' = reqs3
           /\ last' = [op |-> "settle", route |-> req.route, limiter |-> name,
                       options |-> o, key |-> h.key, status |-> req.status,
                       decrements |-> d,
                       pre |-> h.pre, alone |-> h.alone,
                       post |-> after.heap[h.rec].count,
                       absent |-> h.key \notin DOMAIN store,
                       replaced |-> h.key \in DOMAIN store
                                      /\ store[h.key] # h.rec,
                       expired |-> now > heap[h.rec].resetTime,
                       wrote |-> after.store # store \/ after.heap # heap]
    /\ UNCHANGED <<now, timerDue, opts, mounted, clients, budget, ticks, arrived,
                   traffic, opened>>

\* Time passes.
Tick(d) ==
    /\ ticks < budget.ticks
    /\ now' = now + d
    /\ ticks' = ticks + 1
    /\ opened' = [k \in {q \in DOMAIN opened : now + d < opened[q].end} |->
                    opened[k]]
    /\ last' = [op |-> "tick"]
    /\ UNCHANGED <<store, heap, timerDue, reqs, opts, mounted, clients, budget,
                   arrived, traffic, hist>>

\* The setInterval callback: store.cleanup().
Cleanup ==
    /\ now >= timerDue
    /\ LET swept == MemoryStoreCleanup(store, heap, now)
           live == Live(swept, reqs)
       IN  /\ store' = swept
           /\ heap' = Restrict(heap, live)
           /\ hist' = Restrict(hist, live)
    /\ timerDue' = timerDue + CleanupIntervalMs
    /\ last' = [op |-> "cleanup",
                found |-> [k \in DOMAIN store |-> heap[store[k]].resetTime]]
    /\ UNCHANGED <<now, reqs, opts, mounted, clients, budget, ticks, arrived,
                   traffic, opened>>

---------------------------------------------------------------------------
\* Specifications.

Statuses == {200, 302, 400, 401, 404, 501}

InitCommon ==
    /\ now = 0
    /\ store = <<>>
    /\ heap = <<>>
    /\ timerDue = CleanupIntervalMs
    /\ reqs = EmptyBag
    /\ ticks = 0
    /\ arrived = 0
    /\ traffic = <<>>
    /\ hist = <<>>
    /\ opened = <<>>
    /\ last = [op |-> "load"]

Budget(r, f, t) == [reqs |-> r, flights |-> f, ticks |-> t]

\* A limiter made by createRateLimiter, mounted on its own, serving one
\* client address, one request after the other.
Init ==
    /\ InitCommon
    /\ opts \in CustomOptions
    /\ mounted = {"custom/redirect"}
    /\ clients = {ClientA}
    /\ budget = Budget(MaxReqs, 1, MaxTicks)

\* The same limiter with requests of one client address in flight together.
InitConc ==
    /\ InitCommon
    /\ opts \in {o \in CustomOptions : o.maxRequests = MaxCustomMax}
    /\ mounted = {"custom"}
    /\ clients = {ClientA}
    /\ budget = Budget(MaxInFlight, MaxInFlight, MaxTicks - 1)

\* A limiter that takes successful requests off the count, serving two
\* client addresses.
InitKeys ==
    /\ InitCommon
    /\ opts \in {o \in CustomOptions :
                    /\ o.maxRequests = 1
                    /\ o.skipSuccessfulRequests
                    /\ ~o.skipFailedRequests}
    /\ mounted = {"custom"}
    /\ clients = {ClientA, ClientB}
    /\ budget = Budget(MaxInFlight, MaxInFlight, MaxTicks - 1)

\* strictRateLimiter mounted on its own.
InitStrict ==
    /\ InitCommon
    /\ opts = strictRateLimiter
    /\ mounted = {"strict"}
    /\ clients = {ClientA}
    /\ budget = Budget(strictRateLimiter.maxRequests + 2, 1, MaxTicks - 1)

\* The server: rateLimiter on /api/*, strictRateLimiter on the auth routes.
InitApp ==
    /\ InitCommon
    /\ opts = rateLimiter
    /\ mounted = {"/api", "/api/auth/login"}
    /\ clients = {ClientA}
    /\ budget = Budget(MaxReqs, 1, MaxTicks - 1)

\* A limiter with the plain accounting, run for long enough that the
\* periodic sweep meets the records of its requests.
InitSweep ==
    /\ InitCommon
    /\ opts \in {o \in CustomOptions :
                    /\ o.maxRequests = 1
                    /\ ~o.skipSuccessfulRequests
                    /\ ~o.skipFailedRequests}
    /\ mounted = {"custom"}
    /\ clients = {ClientA}
    /\ budget = Budget(MaxInFlight, 1, MaxTicks + 1)

\* A limiter that takes successful requests off the count, with requests
\* of one client address in flight together and one more than fit in
\* flight.
InitStale ==
    /\ InitCommon
    /\ opts \in {o \in CustomOptions :
                    /\ o.maxRequests = MaxCustomMax
                    /\ o.skipSuccessfulRequests
                    /\ ~o.skipFailedRequests}
    /\ mounted = {"custom"}
    /\ clients = {ClientA}
    /\ budget = Budget(MaxInFlight + 1, MaxInFlight, MaxTicks - 1)

\* A limiter with a window of one and a half clock steps and enough
\* requests to fill two windows.
InitBurst ==
    /\ InitCommon
    /\ opts = BurstOptions
    /\ mounted = {"custom"}
    /\ clients = {ClientA}
    /\ budget = Budget(2 * MaxCustomMax + 1, 1, MaxTicks)

\* The server's routes that have a limiter of their own behind rateLimiter,
\* called from one address by a visitor and by two signed-in users.
InitWired ==
    /\ InitCommon
    /\ opts = rateLimiter
    /\ mounted = {"/api/auth/login", "/api/users/:id", "/api/media/upload"}
    /\ clients = {ClientA, UserU1, UserU2}
    /\ budget = Budget(MaxInFlight, 1, MaxTicks - 1)

\* Each pre-built limiter mounted with no other limiter in front of it.
InitPrebuilt ==
    /\ InitCommon
    /\ opts = rateLimiter
    /\ mounted = {"/api", "strict", "read", "upload"}
    /\ clients = {ClientA, UserU1}
    /\ budget = Budget(MaxInFlight, 1, MaxTicks - 1)

\* A limiter that takes successful requests off the count, with one more
\* request of one client address in flight than the limit admits.
InitFull ==
    /\ InitCommon
    /\ opts \in {o \in CustomOptions :
                    /\ o.maxRequests = MaxCustomMax
                    /\ o.skipSuccessfulRequests
                    /\ ~o.skipFailedRequests}
    /\ mounted = {"custom"}
    /\ clients = {ClientA}
    /\ budget = Budget(MaxCustomMax + 1, MaxCustomMax + 1, 1)

\* rateLimiter in front of a route, one request with any headers.
InitHeaders ==
    /\ InitCommon
    /\ opts = rateLimiter
    /\ mounted = {"/api"}
    /\ \E c \in HeaderClients : clients = {c}
    /\ budget = Budget(1, 1, 1)

\* A limiter made by createRateLimiter of any window and limit.
InitAny ==
    /\ InitCommon
    /\ opts \in AnyOptions
    /\ mounted = {"custom"}
    /\ clients = {ClientA}
    /\ budget = Budget(MaxInFlight, 1, 1)

\* A limiter, with or without successful requests taken off the count, and
\* the periodic sweep.
InitLive ==
    /\ InitCommon
    /\ opts \in {o \in CustomOptions :
                    o.maxRequests = 1 /\ ~o.skipFailedRequests}
    /\ mounted = {"custom"}
    /\ clients = {ClientA}
    /\ budget = Budget(MaxInFlight, 1, MaxTicks)

\* The server's search paths, which both registrations of readRateLimiter
\* of a router match.
InitSearch ==
    /\ InitCommon
    /\ opts = rateLimiter
    /\ mounted = {"/api/users/search", "/api/posts/search"}
    /\ clients = {ClientA, ClientB}
    /\ budget = Budget(MaxInFlight, 1, MaxTicks - 1)

\* A limiter of any accounting mode, with more requests of one client
\* address than the limit, all of which may be in flight together.
InitModes ==
    /\ InitCommon
    /\ opts \in {o \in CustomOptions : o.maxRequests = MaxCustomMax}
    /\ mounted = {"custom"}
    /\ clients = {ClientA}
    /\ budget = Budget(MaxInFlight + 1, MaxInFlight + 1, 1)

\* A limiter with the plain accounting, with requests of one client
\* address in flight together and one more than fit in flight.
InitPlain ==
    /\ InitCommon
    /\ opts \in {o \in CustomOptions :
                    /\ o.maxRequests = MaxCustomMax - 1
                    /\ ~o.skipSuccessfulRequests
                    /\ ~o.skipFailedRequests}
    /\ mounted = {"custom"}
    /\ clients = {ClientA}
    /\ budget = Budget(MaxInFlight + 1, MaxInFlight, MaxTicks - 1)

Next ==
    \/ \E route \in mounted, client \in clients : Arrive(route, client)
    \/ \E req \in DOMAIN reqs : Limit(req)
    \/ \E req \in DOMAIN reqs, status \in Statuses : Handle(req, status)
    \/ \E req \in DOMAIN reqs : Settle(req)
    \/ \E d \in {TickMs, CleanupIntervalMs} : Tick(d)
    \/ Cleanup

Spec == Init /\ [][Next]_vars

SpecConc == InitConc /\ [][Next]_vars

SpecKeys == InitKeys /\ [][Next]_vars

SpecStrict == InitStrict /\ [][Next]_vars

SpecApp == InitApp /\ [][Next]_vars

SpecSweep == InitSweep /\ [][Next]_vars

SpecStale == InitStale /\ [][Next]_vars

SpecBurst == InitBurst /\ [][Next]_vars

SpecWired == InitWired /\ [][Next]_vars

SpecPrebuilt == InitPrebuilt /\ [][Next]_vars

SpecFull == InitFull /\ [][Next]_vars

SpecHeaders == InitHeaders /\ [][Next]_vars

SpecAny == InitAny /\ [][Next]_vars

SpecSearch == InitSearch /\ [][Next]_vars

SpecModes == InitModes /\ [][Next]_vars

SpecPlain == InitPlain /\ [][Next]_vars

\* setInterval keeps calling store.cleanup(): a sweep that is due is run.
SpecLive == InitLive /\ [][Next]_vars /\ WF_vars(Cleanup)

---------------------------------------------------------------------------
\* Properties.

\* C1: while no decrement has been made on a record, the Nth request counted
\* on it (N <= maxRequests) is passed on to next() and is told
\* X-RateLimit-Remaining = maxRequests - N, and request maxRequests + 1
\* gets the 429.
C1_NthRequestRemaining ==
    (last.op = "limit" /\ last.before.decs = 0) =>
        LET N == last.before.incs + 1
            M == last.options.maxRequests
        IN  /\ N <= M => /\ last.admitted
                         /\ last.status # 429
                         /\ last.headers.remaining = M - N
            /\ N = M + 1 => ~last.admitted /\ last.status = 429

\* C1 happens: request maxRequests + 1 of a window has been rejected.
C1_Witness ==
    /\ last.op = "limit"
    /\ last.before.decs = 0
    /\ last.options.maxRequests = MaxCustomMax
    /\ last.before.incs = MaxCustomMax
    /\ last.status = 429

\* C2: a request that finds its key's record with the reset time behind it
\* starts a new window whatever the old count was: the record it gets has
\* count 1 and resetTime = now + windowMs, and the request is admitted.
C2_ElapsedRecordRestarts ==
    (last.op = "limit" /\ last.old # <<>> /\ now > last.old[1].resetTime) =>
        /\ last.record.count = 1
        /\ last.record.resetTime = now + last.options.windowMs
        /\ last.admitted

\* C2 happens: the old record was over the limit and the request got in.
C2_Witness ==
    /\ last.op = "limit"
    /\ last.old # <<>>
    /\ now > last.old[1].resetTime
    /\ last.old[1].count > last.options.maxRequests
    /\ last.admitted

\* C3: with skipSuccessfulRequests, a request that was alone on its record
\* and whose handler ended with a 2xx or 3xx status leaves the count as it
\* was before the request was counted; and a request that finds nothing but
\* finished successful requests on its record is admitted.
C3_SuccessNetsToZero ==
    /\ (/\ last.op = "settle"
        /\ last.options.skipSuccessfulRequests
        /\ last.status \in 200..399
        /\ last.alone) => last.post = last.pre
    /\ (/\ last.op = "limit"
        /\ last.options.skipSuccessfulRequests
        /\ last.before.open = 0
        /\ last.before.bad = 0
        /\ last.before.rejs = 0) => last.admitted /\ last.record.count = 1

\* C3 happens: successful requests have run one after the other on one
\* record, and the last of them has put the count back to where it was.
C3_Witness ==
    /\ last.op = "settle"
    /\ last.options.skipSuccessfulRequests
    /\ ~last.options.skipFailedRequests
    /\ last.options.maxRequests = 1
    /\ last.status = 200
    /\ last.pre = 0
    /\ last.post = 0
    /\ \E ref \in DOMAIN hist : hist[ref].ok = MaxReqs

\* C4: strictRateLimiter on its own key, attempts made one after the other:
\* the count an attempt meets is one more than the failed and the rejected
\* attempts before it (successful ones add nothing and take nothing away),
\* so that before the first rejection an attempt is admitted exactly when
\* fewer than 5 failed attempts precede it.
C4_FiveFailedAttempts ==
    /\ (last.op = "limit" /\ last.before.open = 0) =>
          /\ last.record.count = last.before.bad + last.before.rejs + 1
          /\ last.before.rejs = 0 => (last.admitted <=> last.before.bad < 5)
    /\ (last.op = "settle" /\ last.alone) =>
          last.post = last.pre + (IF last.status \in 200..399 THEN 0 ELSE 1)

\* C4 happens: the attempt after 5 failed and one successful attempt is the
\* first to be rejected.
C4_Witness ==
    /\ last.op = "limit"
    /\ last.limiter = "strictRateLimiter"
    /\ last.before.open = 0
    /\ last.before.bad = 5
    /\ last.before.ok >= 1
    /\ last.before.rejs = 0
    /\ last.status = 429

\* C5: no record object is counted on by limiters of two different
\* policies.
C5_PoliciesShareNoRecord ==
    \A ref \in DOMAIN hist : Cardinality(hist[ref].limiters) <= 1

\* C6: through the server's chain, a client address with no traffic on
\* other routes gets its first 429 from the strict limiter on its 6th
\* request to the auth endpoint at the earliest.
C6_AuthRejectsFromSixth ==
    (/\ last.op = "limit"
     /\ last.route = "/api/auth/login"
     /\ last.limiter = "strictRateLimiter"
     /\ last.only
     /\ last.status = 429) => last.seen >= 6

\* The record a key has in the store, if any.
RecordOf(st, hp, key) == IF key \in DOMAIN st THEN <<hp[st[key]]>> ELSE <<>>

\* C7: a request or a settle on one key leaves the record of every other
\* key as it is, a sweep leaves every record whose window is open as it is,
\* and whether a request is admitted follows from the record of its own key:
\* it is admitted iff the count it finds there, plus one, is within the limit.
C7_KeysAreIndependent ==
    [][/\ last'.op \in {"limit", "settle"} =>
            \A k \in DOMAIN store \ {last'.key} :
                RecordOf(store', heap', k) = RecordOf(store, heap, k)
       /\ last'.op = "cleanup" =>
            \A k \in DOMAIN store :
                now < heap[store[k]].resetTime =>
                    RecordOf(store', heap', k) = RecordOf(store, heap, k)
       /\ last'.op = "limit" =>
            LET own == RecordOf(store, heap, last'.key)
                found == IF own # <<>> /\ now < own[1].resetTime
                         THEN own[1].count ELSE 0
            IN  (own = <<>> \/ now # own[1].resetTime) =>
                    (last'.admitted <=> found + 1 <= last'.options.maxRequests)
      ]_vars

\* C7 happens: a request on one key has been settled with a decrement while
\* another key had a record in the store.
C7_Witness ==
    /\ last.op = "settle"
    /\ last.decrements = 1
    /\ \E k \in DOMAIN store : k # last.key /\ heap[store[k]].count >= 1

\* C8: as long as no decrement has been made on a record, its count is the
\* number of requests that were counted on it, however they interleave.
C8_NoLostIncrement ==
    \A ref \in DOMAIN heap :
        hist[ref].decs = 0 => heap[ref].count = hist[ref].incs

\* C8 happens: MaxInFlight requests of one key are inside next() together.
C8_Witness ==
    \E ref \in DOMAIN heap :
        /\ hist[ref].decs = 0
        /\ hist[ref].open = MaxInFlight
        /\ heap[ref].count = MaxInFlight

\* C9: a settle that finds its record gone from the store, replaced by
\* another record or with its reset time behind it writes nothing.
C9_StaleSettleWritesNothing ==
    (/\ last.op = "settle"
     /\ (last.absent \/ last.replaced \/ last.expired)) => ~last.wrote

\* C10: a request arriving at now = resetTime of its key's record opens a
\* new window with count 1.
C10_ExpiredAtResetTime ==
    (/\ last.op = "limit"
     /\ last.old # <<>>
     /\ now = last.old[1].resetTime) => last.fresh /\ last.record.count = 1

\* C11: a sweep run at time now removes a record if and only if the
\* record's window has elapsed (resetTime <= now): no record with an open
\* window is removed, and none with resetTime <= now is left in the store.
C11_SweepRemovesElapsed ==
    last.op = "cleanup" =>
        \A k \in DOMAIN last.found :
            (k \notin DOMAIN store) <=> (last.found[k] <= now)

\* C12: in every reachable state the count stored for every key is a
\* non-negative integer: no interleaving of admissions, settles (with
\* either or both skip flags), expiries and sweeps takes a count below 0.
C12_CountNeverNegative ==
    \A k \in DOMAIN store : heap[store[k]].count \in Nat

\* C12 happens: with both skip flags set, two requests were in flight on
\* one record and the second settle has taken its count down to 0.
C12_Witness ==
    /\ last.op = "settle"
    /\ last.options.skipSuccessfulRequests
    /\ last.options.skipFailedRequests
    /\ ~last.alone
    /\ last.decrements = 1
    /\ last.key \in DOMAIN store
    /\ heap[store[last.key]].count = 0

\* C13: every request a limiter evaluates, admitted or rejected, is given
\* X-RateLimit-Limit = maxRequests, X-RateLimit-Remaining =
\* max(0, maxRequests - count), X-RateLimit-Reset = the record's reset time
\* in epoch seconds (rounded up), X-RateLimit-Window = windowMs, and it is
\* admitted if and only if count <= maxRequests, count being the value the
\* increment returned for it.
C13_HeadersAndAdmission ==
    last.op = "limit" =>
        LET c == last.record.count
            M == last.options.maxRequests
        IN  /\ last.headers.limit = M
            /\ last.headers.remaining = (IF M - c > 0 THEN M - c ELSE 0)
            /\ (last.headers.reset - 1) * 1000 < last.record.resetTime
            /\ last.record.resetTime <= last.headers.reset * 1000
            /\ last.headers.window = last.options.windowMs
            /\ last.admitted <=> c <= M
            /\ last.admitted <=> last.next = "handler"

\* C13 happens: a request was rejected with a count more than one above
\* the limit, on a record whose reset time is not a whole second.
C13_Witness ==
    /\ last.op = "limit"
    /\ ~last.admitted
    /\ last.record.count > last.options.maxRequests + 1
    /\ last.record.resetTime % 1000 # 0
    /\ last.headers.remaining = 0

C15_UploadKeyHasPrincipal ==
    (/\ last.op = "limit"
     /\ last.limiter = "uploadRateLimiter"
     /\ last.principal # <<>>) =>
        LET n == Len(last.key)
            p == Len(last.principal)
        IN  /\ last.key[n] # "anonymous"
            /\ n > p
            /\ SubSeq(last.key, n - p + 1, n) = last.principal

\* C16: the pre-built limiters carry exactly these constants: rateLimiter a
\* window of 15 minutes and 100 requests, every request counted;
\* strictRateLimiter 15 minutes and 5, successful requests taken off the
\* count; readRateLimiter 60 minutes and 1000, every request counted;
\* uploadRateLimiter 60 minutes and 10, every request counted, under a key
\* that ends with the userId of the request when it has one.
C16_PrebuiltConstants ==
    /\ last.op = "limit" =>
          LET o == last.options
              shown == <<last.headers.window, last.headers.limit,
                         o.skipSuccessfulRequests, o.skipFailedRequests>>
              n == Len(last.key)
              p == Len(last.userId)
          IN  /\ o.windowMs = last.headers.window
              /\ o.maxRequests = last.headers.limit
              /\ last.limiter = "rateLimiter" =>
                    shown = <<15 * 60000, 100, FALSE, FALSE>>
              /\ last.limiter = "strictRateLimiter" =>
                    shown = <<15 * 60000, 5, TRUE, FALSE>>
              /\ last.limiter = "readRateLimiter" =>
                    shown = <<60 * 60000, 1000, FALSE, FALSE>>
              /\ last.limiter = "uploadRateLimiter" =>
                    /\ shown = <<60 * 60000, 10, FALSE, FALSE>>
                    /\ last.key[1] = "upload_limit:"
                    /\ last.userId # <<>> =>
                          SubSeq(last.key, n - p + 1, n) = last.userId
                    /\ last.userId = <<>> => last.key[n] = "anonymous"
              /\ last.fresh => last.record.resetTime = now + last.headers.window
    /\ last.op = "settle" =>
          last.decrements = (IF /\ last.limiter = "strictRateLimiter"
                                /\ last.status \in 200..399
                             THEN 1 ELSE 0)

\* C16 happens: the upload limiter has counted the first upload of a
\* signed-in user under the user's key, in a window of one hour.
C16_Witness ==
    /\ last.op = "limit"
    /\ last.limiter = "uploadRateLimiter"
    /\ last.userId = <<"u1">>
    /\ last.key = <<"upload_limit:", "a", ":", "u1">>
    /\ last.headers.remaining = 9
    /\ last.record.resetTime = now + 3600000

\* C17: what the limiter does when next() has returned follows its
\* accounting mode and the outcome: with no skip flag the count is left as
\* it was; with skipSuccessfulRequests alone it is taken down by exactly 1
\* if and only if the status is 200-399; with skipFailedRequests alone by
\* exactly 1 if and only if the status is >= 400.
C17_SettleFollowsMode ==
    last.op = "settle" =>
        LET ss == last.options.skipSuccessfulRequests
            sf == last.options.skipFailedRequests
            success == last.status \in 200..399
            failure == last.status >= 400
        IN  /\ (~ss /\ ~sf) => last.decrements = 0
            /\ (ss /\ ~sf) => last.decrements = (IF success THEN 1 ELSE 0)
            /\ (sf /\ ~ss) => last.decrements = (IF failure THEN 1 ELSE 0)
            /\ last.alone => last.post = last.pre + 1 - last.decrements
            /\ last.decrements = 0 => ~last.wrote

\* C17 happens: a limiter with skipSuccessfulRequests alone has taken a
\* request that ended in a redirect off the count.
C17_Witness ==
    /\ last.op = "settle"
    /\ last.options.skipSuccessfulRequests
    /\ ~last.options.skipFailedRequests
    /\ last.status = 302
    /\ last.decrements = 1
    /\ last.post = last.pre

\* C18: the record a limiter gets for its key has resetTime = the time the
\* record was created + the windowMs of that limiter, so that the
\* X-RateLimit-Reset and X-RateLimit-Window of one response fit together.
C18_ResetIsStartPlusWindow ==
    last.op = "limit" =>
        LET end == last.born + last.headers.window
        IN  /\ last.record.resetTime = last.born + last.options.windowMs
            /\ (last.headers.reset - 1) * 1000 < end
            /\ end <= last.headers.reset * 1000

\* C19: the window is fixed: the reset time of a record never changes after
\* its creation (not by increments, rejections or decrements), and every
\* request arriving in [start, end) of the window last opened for its key
\* is counted on the record of that window.
C19_FixedWindow ==
    /\ \A ref \in DOMAIN heap : heap[ref].resetTime = hist[ref].reset0
    /\ (/\ last.op = "limit"
        /\ last.window # <<>>
        /\ last.window[1].start <= now
        /\ now < last.window[1].end) =>
          /\ ~last.fresh
          /\ last.born = last.window[1].start
          /\ last.record.resetTime = last.window[1].end

\* C20: one record never has more than maxRequests admissions counted on
\* it, but a burst of 2 x maxRequests admitted requests on one key is
\* reachable across a window boundary: maxRequests admitted shortly before
\* the reset time of one record and maxRequests more after it, on the next
\* record, the whole burst lasting less than one window.
C20_BurstAcrossBoundary ==
    \A ref \in DOMAIN hist :
        /\ BagCardinality(hist[ref].kept) <= opts.maxRequests
        /\ BagCardinality(hist[ref].prev) <= opts.maxRequests
        /\ hist[ref].kept # EmptyBag => hist[ref].born <= Earliest(hist[ref].kept)
        /\ (hist[ref].prev # EmptyBag /\ hist[ref].kept # EmptyBag) =>
              /\ Latest(hist[ref].prev) <= hist[ref].prevEnd
              /\ hist[ref].prevEnd < Earliest(hist[ref].kept)

\* C20 happens: 2 x maxRequests admissions of one key, half of them counted
\* on the record before the boundary and half on the record after it, with
\* less than one window between the first and the last.
C20_Witness ==
    \E k \in DOMAIN store :
        LET h == hist[store[k]]
        IN  /\ opts.maxRequests = MaxCustomMax
            /\ BagCardinality(h.prev) = opts.maxRequests
            /\ BagCardinality(h.kept) = opts.maxRequests
            /\ Latest(h.prev) < h.prevEnd
            /\ h.prevEnd < Earliest(h.kept)
            /\ Latest(h.kept) - Earliest(h.prev) < opts.windowMs

\* C21 (as stated): with skipSuccessfulRequests the count includes the
\* requests admitted and not yet settled, so with maxRequests requests in
\* flight on a record a further request in the window is rejected even if
\* all of them succeed later; and once the maxRequests requests have all
\* settled with a success the count is back to what it was before them (0,
\* when they were the first requests counted on the record).
C21_CountBackAfterSettles ==
    /\ (/\ last.op = "limit"
        /\ ~last.fresh
        /\ last.before.open >= last.options.maxRequests) => ~last.admitted
    /\ \A ref \in DOMAIN heap :
          (/\ hist[ref].ok = opts.maxRequests
           /\ hist[ref].bad = 0
           /\ hist[ref].open = 0) => heap[ref].count = 0

\* C21 (amended): as above, but once the maxRequests requests have all
\* settled with a success the count is what it was before them plus one for
\* every request that was rejected meanwhile.
C21_CountBackButForRejections ==
    /\ (/\ last.op = "limit"
        /\ ~last.fresh
        /\ last.before.open >= last.options.maxRequests) => ~last.admitted
    /\ \A ref \in DOMAIN heap :
          (/\ hist[ref].ok = opts.maxRequests
           /\ hist[ref].bad = 0
           /\ hist[ref].open = 0) => heap[ref].count = hist[ref].rejs

\* C21 happens: maxRequests requests were in flight together, a further
\* request was rejected, and they have all settled with a success.
C21_Witness ==
    /\ last.op = "settle"
    /\ last.status = 200
    /\ ~last.alone
    /\ \E ref \in DOMAIN heap :
          /\ hist[ref].ok = MaxCustomMax
          /\ hist[ref].bad = 0
          /\ hist[ref].open = 0
          /\ hist[ref].rejs = 1
          /\ heap[ref].count = 1

\* C22: the default key generator is a total function of the request
\* headers alone: the key is "rate_limit:" followed by the first
\* comma-separated entry of x-forwarded-for without its leading and trailing
\* blanks when that header is not empty, otherwise by x-real-ip when that is
\* not empty, otherwise by "unknown"; it fails for no request and the store
\* has no part in it.
C22_DefaultKeyGenerator ==
    (last.op = "limit" /\ last.options.keyGenerator = "default") =>
        LET f == last.xff
            commas == {i \in 1..Len(f) : f[i] = ","}
            stop == IF commas = {} THEN Len(f) + 1
                    ELSE CHOOSE i \in commas : \A j \in commas : i <= j
            inked == {i \in 1..stop - 1 : f[i] # " "}
            from == CHOOSE i \in inked : \A j \in inked : i <= j
            to == CHOOSE i \in inked : \A j \in inked : i >= j
            entry == IF inked = {} THEN <<>> ELSE SubSeq(f, from, to)
            ip == IF f # <<>> THEN entry
                  ELSE IF last.realip # <<>> THEN last.realip
                  ELSE <<"unknown">>
        IN  last.key = <<"rate_limit:">> \o ip

\* C22 happens: a request whose x-forwarded-for has blanks around its first
\* entry and a second entry was counted under the first entry alone.
C22_Witness ==
    /\ last.op = "limit"
    /\ Len(last.xff) = MaxLen
    /\ last.xff[1] = " "
    /\ last.xff[MaxLen] = ","
    /\ last.xff[MaxLen - 1] = " "
    /\ last.key \in {<<"rate_limit:", "a">>, <<"rate_limit:">>}

\* C23: a request whose key has no record in the store is admitted, whatever
\* limiter evaluates it, and the evaluation ends with an answer (the call of
\* next() or the 429), never with an error.
C23_UnseenKeyIsAdmitted ==
    (last.op = "limit" /\ last.old = <<>>) =>
        /\ last.admitted
        /\ last.next = "handler"
        /\ last.record.count = 1

\* C24: no limiter with a window or a limit that is not positive ever
\* evaluates a request (createRateLimiter refuses to make one).
C24_InvalidPolicyNeverEvaluates ==
    last.op = "limit" =>
        /\ last.options.windowMs > 0
        /\ last.options.maxRequests > 0

\* C25: the sweep runs on its timer, whatever the traffic: a record whose
\* reset time is behind the clock when the timer is due is removed from the
\* store, also when no request for its key comes any more, so no elapsed
\* record stays in the store for ever.
C25_ElapsedRecordIsSwept ==
    \A c \in {ClientA} :
        LET k == DefaultKeyGenerator(c)
        IN  (/\ k \in DOMAIN store
             /\ now > heap[store[k]].resetTime
             /\ now >= timerDue)
                ~> (k \notin DOMAIN store \/ now <= heap[store[k]].resetTime)

\* C25 happens: a sweep has removed the elapsed record of a key while no
\* request was being served.
C25_Witness ==
    /\ last.op = "cleanup"
    /\ reqs = EmptyBag
    /\ \E k \in DOMAIN last.found : last.found[k] < now /\ k \notin DOMAIN store

\* C26: with no skip flag, whatever the interleaving, the handler is invoked
\* for at most maxRequests of the requests counted on one record; and once a
\* request of a key has been rejected, every later request of the key that
\* arrives before the reset time of the record is rejected as well.
C26_PlainLimitIsHard ==
    /\ \A ref \in DOMAIN hist :
          hist[ref].ok + hist[ref].bad + hist[ref].open <= opts.maxRequests
    /\ (/\ last.op = "limit"
        /\ last.old # <<>>
        /\ now < last.old[1].resetTime
        /\ last.oldhist[1].rejs > 0) => ~last.admitted /\ last.status = 429

\* C26 happens: with the admitted requests still inside next(), a second
\* request in a row has been rejected.
C26_Witness ==
    /\ last.op = "limit"
    /\ ~last.options.skipSuccessfulRequests
    /\ ~last.options.skipFailedRequests
    /\ now < last.record.resetTime
    /\ last.oldhist # <<>>
    /\ last.oldhist[1].rejs >= 1
    /\ last.oldhist[1].open = last.options.maxRequests
    /\ last.status = 429

\* C27: one request increments the counter of a given limiter exactly once,
\* however the routes are wired: a request to /api/users/search or
\* /api/posts/search takes one unit of the read quota, not two.
C27_OneUnitPerRequest ==
    last.op = "limit" => last.times = 1

\* C28: under every accounting mode, the count of a key's unexpired record
\* is the number of requests admitted on the record and still in flight,
\* plus those admitted on it and settled without a decrement, plus those
\* rejected on it; a rejected request is never settled, so its increment
\* stays in the count.
C28_CountConservation ==
    /\ \A key \in DOMAIN store :
          now <= heap[store[key]].resetTime =>
              /\ heap[store[key]].count
                   = BagCardinality(hist[store[key]].kept)
                       + hist[store[key]].rejs
              /\ BagCardinality(hist[store[key]].kept)
                   >= hist[store[key]].open
    /\ last.op = "settle" => last.status # 429
    /\ (last.op = "limit" /\ last.status = 429) => last.next = "done"

\* C28 happens: an unexpired record with a request in flight, a settled
\* request that was taken off the count, and a rejected one.
C28_Witness ==
    \E key \in DOMAIN store :
        /\ now <= heap[store[key]].resetTime
        /\ hist[store[key]].open >= 1
        /\ hist[store[key]].decs >= 1
        /\ hist[store[key]].rejs >= 1

\* C28 happens also with a settled request that stays in the count.
C28_WitnessKept ==
    \E key \in DOMAIN store :
        /\ now <= heap[store[key]].resetTime
        /\ hist[store[key]].open >= 1
        /\ BagCardinality(hist[store[key]].kept) > hist[store[key]].open
        /\ hist[store[key]].rejs >= 1

\* C29: every rejected request is told to wait a positive, bounded time:
\* the Retry-After value of a 429 response is at least 1 second and at most
\* ceil(windowMs / 1000) seconds, and the header and the body field
\* retryAfter of the response carry the same value.
C29_RetryAfterPositiveAndBounded ==
    (last.op = "limit" /\ last.status = 429) =>
        /\ last.retryAfter[1] >= 1
        /\ last.retryAfter[1] <= (last.options.windowMs + 999) \div 1000
        /\ last.body[1].retryAfter = last.retryAfter[1]

\* The part of C29 that holds: the value is never negative, never above
\* ceil(windowMs / 1000), and the same in the header and in the body.
C29_RetryAfterBounded ==
    (last.op = "limit" /\ last.status = 429) =>
        /\ last.retryAfter[1] >= 0
        /\ last.retryAfter[1] = 0 <=> now = last.record.resetTime
        /\ last.retryAfter[1] <= (last.options.windowMs + 999) \div 1000
        /\ last.body[1].retryAfter = last.retryAfter[1]

\* The requests admitted under a key that are still in flight (inside
\* next(), or back from it and not yet through the code after it).
InFlight(key) ==
    LET S == {r \in DOMAIN reqs :
                \E i \in 1..Len(r.held) : r.held[i].key = key}
    IN  BagCardinality([r \in S |-> reqs[r]])

\* C30 (as stated): under a skip-accounting policy the requests of one key
\* that are admitted and still in flight are at most maxRequests at every
\* moment, also when their admissions and completions straddle a window
\* boundary.
C30_InFlightPerKey ==
    (opts.skipSuccessfulRequests \/ opts.skipFailedRequests) =>
        \A c \in clients :
            InFlight(DefaultKeyGenerator(c)) <= opts.maxRequests

\* C30 (amended): under a skip-accounting policy the requests admitted on
\* one record and still in flight are at most maxRequests at every moment;
\* requests admitted on the record of an earlier window and still in flight
\* are not counted on the new record, whose count starts at 1.
C30_InFlightPerRecord ==
    (opts.skipSuccessfulRequests \/ opts.skipFailedRequests) =>
        /\ \A ref \in DOMAIN hist : hist[ref].open <= opts.maxRequests
        /\ (last.op = "limit" /\ last.fresh) => last.record.count = 1

\* C30 happens: maxRequests requests admitted in one window are still in
\* flight when a request of the same key is admitted in the next window.
C30_Witness ==
    /\ last.op = "limit"
    /\ last.options.skipSuccessfulRequests
    /\ last.fresh
    /\ last.admitted
    /\ last.old # <<>>
    /\ last.oldhist[1].open = last.options.maxRequests
    /\ InFlight(last.key) = last.options.maxRequests + 1

====
